---- MODULE Spec2Model ----
(***************************************************************************)
(* Two-agent hotel recommendation pipeline (planner -> vector search tool  *)
(* -> synthesizer) of the vector-search-agent samples, in its Go variant   *)
(* (cmd/agent/main.go, internal/agents, internal/clients) and its          *)
(* TypeScript variant (the LangChain driver and its vector-store module). *)
(* Spec is one run of the pipeline driver, LiveSpec the same run with     *)
(* every enabled step eventually taken.  StoreSpec is one run of an upload *)
(* program: the Go upload (settings, clients, embedding loop, unordered    *)
(* insert, index creation) followed by a vector search against the         *)
(* collection it filled, or the TypeScript getStore.  ScriptSpec is one    *)
(* run of a TypeScript script: the authentication test suite or the clean  *)
(* up that drops the database.                                             *)
(*                                                                         *)
(* Texts are sequences of lines; a line is a tuple of strings.  The empty  *)
(* text "" is the empty sequence.  An error value is a sequence of message *)
(* parts, outermost wrapper first (fmt.Errorf("...: %w", err) prepends).   *)
(* JSON numbers are kept in halves (n = halves / 2) so that the            *)
(* float64 -> int conversion of the Go planner is a real truncation.       *)
(***************************************************************************)
EXTENDS Integers, Sequences, FiniteSets

\* ---------------------------------------------------------------- bounds
MaxToolCalls == 2      \* tool calls carried by one model response
MaxRounds == 2         \* model rounds of the TypeScript agent loop

\* ------------------------------------------------------ program constants
ToolName == "search_hotels_collection"
DefaultNearestNeighbors == 5
SchemaDefaultNearestNeighbors == 5
DocumentedMinK == 1
DocumentedMaxK == 20

\* ------------------------------------------------------------ input sets
Impls == {"go", "ts"}
UserQuery == "cheap hotel"
RefinedQueries == {"budget-friendly hotel"}
ModelText == "I recommend the Grand Hotel"
\* NEAREST_NEIGHBORS setting: unset, not a number, or a decimal integer
EnvUnset == [set |-> FALSE, numeric |-> FALSE, val |-> 0]
EnvGarbage == [set |-> TRUE, numeric |-> FALSE, val |-> 0]
EnvNum(n) == [set |-> TRUE, numeric |-> TRUE, val |-> n]
EnvNumbers == {0, 3, DocumentedMaxK + 1}
EnvNearestNeighbors == {EnvUnset, EnvGarbage} \cup {EnvNum(n) : n \in EnvNumbers}

\* JSON values of the tool-call arguments object
JAbsent == [tag |-> "absent", s |-> "", halves |-> 0]
JOther == [tag |-> "other", s |-> "", halves |-> 0]
JString(str) == [tag |-> "string", s |-> str, halves |-> 0]
JNumber(h) == [tag |-> "number", s |-> "", halves |-> h]
\* -1, 0, 0.5, 3, 20, 21
NumberHalves == {-2, 0, 1, 6, 2 * DocumentedMaxK, 2 * DocumentedMaxK + 2}
QueryValues == {JAbsent, JOther} \cup {JString(q) : q \in RefinedQueries}
NNValues == {JAbsent, JOther} \cup {JNumber(h) : h \in NumberHalves}
InvalidJSON == [valid |-> FALSE, query |-> JAbsent, nearestNeighbors |-> JAbsent]
ArgsObject(q, nn) == [valid |-> TRUE, query |-> q, nearestNeighbors |-> nn]
ArgsJSON == {InvalidJSON} \cup {ArgsObject(q, nn) : q \in QueryValues, nn \in NNValues}

ToolCallTypes == {"function", "custom"}
ToolNames == {ToolName, "other_tool"}
GoodArgs == ArgsObject(JString("budget-friendly hotel"), JNumber(6))
\* first tool call of a response: the expected function with any arguments, or
\* a call of another type or name
ToolCalls ==
    [type : {"function"}, name : {ToolName}, arguments : ArgsJSON]
    \cup [type : ToolCallTypes, name : ToolNames, arguments : {GoodArgs}]
\* further tool calls of a response: a second well-formed call and a foreign one
ExtraToolCalls ==
    { [type |-> "function", name |-> ToolName,
       arguments |-> ArgsObject(JString("budget-friendly hotel"), JNumber(2))],
      [type |-> "function", name |-> "other_tool", arguments |-> InvalidJSON] }

RECURSIVE SeqsUpTo(_, _)
SeqsUpTo(S, n) ==
    IF n = 0 THEN {<<>>}
    ELSE LET shorter == SeqsUpTo(S, n - 1)
         IN shorter \cup {Append(s, x) : s \in {t \in shorter : Len(t) = n - 1}, x \in S}

ToolCallSeqs ==
    {<<>>} \cup {<<t>> \o rest : t \in ToolCalls, rest \in SeqsUpTo(ExtraToolCalls, MaxToolCalls - 1)}

FinishReasons == {"tool_calls", "stop", "length", "content_filter"}
Contents == {"", ModelText}
Choices == [finishReason : FinishReasons, content : Contents, toolCalls : ToolCallSeqs]
ExtraChoice == [finishReason |-> "stop", content |-> ModelText, toolCalls |-> <<>>]
\* no choice, one choice, or a further choice after the first
ChoiceSeqs ==
    {<<>>} \cup {<<c>> : c \in Choices} \cup {<<c, ExtraChoice>> : c \in Choices}
NoResponse == [choices |-> <<>>]
Responses == [choices : ChoiceSeqs]

\* ------------------------------------------------------- results / errors
Ok(v) == [ok |-> TRUE, val |-> v, err |-> <<>>]
Fail(e) == [ok |-> FALSE, val |-> <<>>, err |-> e]
Wrap(prefix, r) == Fail(<<prefix>> \o r.err)
NoResult == [ok |-> FALSE, val |-> <<>>, err |-> <<>>]

\* ------------------------------------------------------------ conversions
\* Go float64 -> int conversion: truncation toward zero
GoIntOfFloat(halves) == IF halves >= 0 THEN halves \div 2 ELSE -((-halves) \div 2)

\* main.go: nearestNeighbors := 5, replaced when NEAREST_NEIGHBORS parses
GoNearestNeighbors(env) ==
    IF env.set /\ env.numeric THEN env.val ELSE DefaultNearestNeighbors

\* TypeScript driver: parseInt(process.env.NEAREST_NEIGHBORS || '5', 10), numeric settings
TSNearestNeighbors(env) ==
    IF env.set THEN env.val ELSE DefaultNearestNeighbors

\* ------------------------------------------------ Go planner: pure parts
\* extractToolCallRaw looking at the tool calls before the finish reason
extractToolCallRawToolCallsFirst(r) ==
    IF Len(r.choices) = 0 THEN Fail(<<"no choices in response">>)
    ELSE LET choice == r.choices[1] IN
      IF Len(choice.toolCalls) > 0 /\ choice.toolCalls[1].type = "function"
        THEN Ok([name |-> choice.toolCalls[1].name,
                 arguments |-> choice.toolCalls[1].arguments])
      ELSE IF choice.finishReason = "length"
        THEN Fail(<<"response was cut off (length limit exceeded)">>)
      ELSE IF choice.finishReason # "tool_calls" /\ choice.finishReason # "stop"
        THEN Fail(<<"unexpected finish reason: ", choice.finishReason>>)
      ELSE IF Len(choice.toolCalls) = 0
        THEN IF choice.content # ""
               THEN Fail(<<"no tool calls in response - model returned: ", choice.content>>)
               ELSE Fail(<<"no tool calls in response and no text content - finish_reason: ",
                           choice.finishReason>>)
      ELSE Fail(<<"unexpected tool call type: ", choice.toolCalls[1].type>>)

\* extractToolCallRaw reporting a missing tool call without the model's text
extractToolCallRawNoText(r) ==
    IF Len(r.choices) = 0 THEN Fail(<<"no choices in response">>)
    ELSE LET choice == r.choices[1] IN
      IF choice.finishReason = "length"
        THEN Fail(<<"response was cut off (length limit exceeded)">>)
      ELSE IF choice.finishReason # "tool_calls" /\ choice.finishReason # "stop"
        THEN Fail(<<"unexpected finish reason: ", choice.finishReason>>)
      ELSE IF Len(choice.toolCalls) = 0
        THEN Fail(<<"no tool calls in response and no text content - finish_reason: ",
                    choice.finishReason>>)
      ELSE LET toolCall == choice.toolCalls[1] IN
        IF toolCall.type # "function"
          THEN Fail(<<"unexpected tool call type: ", toolCall.type>>)
          ELSE Ok([name |-> toolCall.name, arguments |-> toolCall.arguments])

\* extractToolCallRaw taking the last tool call of the first choice
extractToolCallRawLastToolCall(r) ==
    IF Len(r.choices) = 0 THEN Fail(<<"no choices in response">>)
    ELSE LET choice == r.choices[1] IN
      IF choice.finishReason = "length"
        THEN Fail(<<"response was cut off (length limit exceeded)">>)
      ELSE IF choice.finishReason # "tool_calls" /\ choice.finishReason # "stop"
        THEN Fail(<<"unexpected finish reason: ", choice.finishReason>>)
      ELSE IF Len(choice.toolCalls) = 0
        THEN IF choice.content # ""
               THEN Fail(<<"no tool calls in response - model returned: ", choice.content>>)
               ELSE Fail(<<"no tool calls in response and no text content - finish_reason: ",
                           choice.finishReason>>)
      ELSE LET toolCall == choice.toolCalls[Len(choice.toolCalls)] IN
        IF toolCall.type # "function"
          THEN Fail(<<"unexpected tool call type: ", toolCall.type>>)
          ELSE Ok([name |-> toolCall.name, arguments |-> toolCall.arguments])

extractToolCallRaw(r) ==
    IF Len(r.choices) = 0 THEN Fail(<<"no choices in response">>)
    ELSE LET choice == r.choices[1] IN
      IF choice.finishReason = "length"
        THEN Fail(<<"response was cut off (length limit exceeded)">>)
      ELSE IF choice.finishReason # "tool_calls" /\ choice.finishReason # "stop"
        THEN Fail(<<"unexpected finish reason: ", choice.finishReason>>)
      ELSE IF Len(choice.toolCalls) = 0
        THEN IF choice.content # ""
               THEN Fail(<<"no tool calls in response - model returned: ", choice.content>>)
               ELSE Fail(<<"no tool calls in response and no text content - finish_reason: ",
                           choice.finishReason>>)
      ELSE LET toolCall == choice.toolCalls[1] IN
        IF toolCall.type # "function"
          THEN Fail(<<"unexpected tool call type: ", toolCall.type>>)
          ELSE Ok([name |-> toolCall.name, arguments |-> toolCall.arguments])

ExtractToolCall(r) ==
    LET raw == extractToolCallRaw(r) IN
    IF ~raw.ok THEN raw
    ELSE IF ~raw.val.arguments.valid
      THEN Fail(<<"failed to parse tool arguments: ", "raw arguments">>)
      ELSE Ok([name |-> raw.val.name, args |-> raw.val.arguments])

\* parseToolArgumentsFromMap accepting a missing or non-string query
parseToolArgumentsFromMapNoQueryCheck(argsMap) ==
    Ok([Query |-> argsMap.query.s,
        NearestNeighbors |->
           IF argsMap.nearestNeighbors.tag = "number"
             THEN GoIntOfFloat(argsMap.nearestNeighbors.halves)
             ELSE 0])

parseToolArgumentsFromMap(argsMap) ==
    IF argsMap.query.tag # "string"
      THEN Fail(<<"query argument missing or invalid">>)
      ELSE Ok([Query |-> argsMap.query.s,
               NearestNeighbors |->
                  IF argsMap.nearestNeighbors.tag = "number"
                    THEN GoIntOfFloat(argsMap.nearestNeighbors.halves)
                    ELSE 0])

\* PlannerAgent.Run without the comparison of the tool's name
PlannerToolArgsAnyTool(r, nearestNeighbors) ==
    LET extracted == ExtractToolCall(r) IN
    IF ~extracted.ok THEN Wrap("failed to extract tool call: ", extracted)
    ELSE LET args == parseToolArgumentsFromMap(extracted.val.args) IN
      IF ~args.ok THEN Wrap("failed to parse tool arguments: ", args)
      ELSE Ok([Query |-> args.val.Query,
               NearestNeighbors |->
                  IF args.val.NearestNeighbors = 0
                    THEN nearestNeighbors
                    ELSE args.val.NearestNeighbors])

\* PlannerAgent.Run from the model's response up to the call of the tool:
\* Ok([Query, NearestNeighbors]) are the arguments handed to Execute
PlannerToolArgs(r, nearestNeighbors) ==
    LET extracted == ExtractToolCall(r) IN
    IF ~extracted.ok THEN Wrap("failed to extract tool call: ", extracted)
    ELSE IF extracted.val.name # ToolName
      THEN Fail(<<"unexpected tool called: ", extracted.val.name>>)
    ELSE LET args == parseToolArgumentsFromMap(extracted.val.args) IN
      IF ~args.ok THEN Wrap("failed to parse tool arguments: ", args)
      ELSE Ok([Query |-> args.val.Query,
               NearestNeighbors |->
                  IF args.val.NearestNeighbors = 0
                    THEN nearestNeighbors
                    ELSE args.val.NearestNeighbors])

\* ------------------------------------------- TypeScript planner: pure parts
\* zod schema of the tool: query string, nearestNeighbors optional, default 5
TSSchemaAccepts(call) ==
    /\ call.type = "function"
    /\ call.name = ToolName
    /\ call.arguments.valid
    /\ call.arguments.query.tag = "string"
    /\ \/ call.arguments.nearestNeighbors.tag = "absent"
       \/ /\ call.arguments.nearestNeighbors.tag = "number"
          /\ call.arguments.nearestNeighbors.halves % 2 = 0

\* responses the agent loop hands on to the tool: one choice, every tool call
\* accepted by the schema (dispatch of any other call stays inside the library)
TSFinishReasons == {"tool_calls", "length"}
TSExtraToolCalls == {c \in ExtraToolCalls : TSSchemaAccepts(c)}
TSToolCallSeqs ==
    {<<t>> \o rest :
        t \in {c \in ToolCalls : TSSchemaAccepts(c)},
        rest \in SeqsUpTo(TSExtraToolCalls, MaxToolCalls - 1)}
\* a response that ends the agent loop
TSFinalResponses ==
    {[choices |-> << [finishReason |-> "stop", content |-> c, toolCalls |-> <<>>] >>] :
        c \in Contents}
\* first response of a run
TSResponses ==
    TSFinalResponses \cup
    {[choices |-> << [finishReason |-> f, content |-> "", toolCalls |-> t] >>] :
        f \in TSFinishReasons, t \in TSToolCallSeqs}
\* response after tool messages: the end of the loop, or one more tool call
TSFollowUpResponses ==
    TSFinalResponses \cup
    {[choices |-> << [finishReason |-> "tool_calls", content |-> "", toolCalls |-> <<t>>] >>] :
        t \in TSExtraToolCalls}

TSToolArgs(call) ==
    [Query |-> call.arguments.query.s,
     NearestNeighbors |->
        IF call.arguments.nearestNeighbors.tag = "absent"
          THEN SchemaDefaultNearestNeighbors
          ELSE call.arguments.nearestNeighbors.halves \div 2]

ToolMessage(text) ==
    [role |-> "tool", name |-> ToolName, tool_call_id |-> "call", content |-> text]
AIMessage(content) ==
    [role |-> "ai", name |-> "", tool_call_id |-> "",
     content |-> IF content = "" THEN <<>> ELSE << <<content>> >>]
HumanMessage == [role |-> "human", name |-> "", tool_call_id |-> "", content |-> << <<UserQuery>> >>]

\* first message that is a tool response; "" when there is none
extractPlannerToolOutput(plannerMessages) ==
    LET found == {i \in 1..Len(plannerMessages) :
                     \/ plannerMessages[i].name = ToolName
                     \/ plannerMessages[i].role = "tool"
                     \/ plannerMessages[i].tool_call_id # ""}
    IN IF found = {} THEN <<>>
       ELSE plannerMessages[CHOOSE i \in found : \A j \in found : i <= j].content

\* ----------------------------------------------------------- Search Tool
\* the stored documents, every field as the text the formatter prints for it
HotelDocument(h) ==
    CASE h = "h1"
      -> [HotelId |-> "h1", HotelName |-> "Country Comfort Inn",
            Description |-> "Comfortable rooms near trails", Category |-> "Budget",
            Tags |-> "pool, free wifi", ParkingIncluded |-> "true", IsDeleted |-> "false",
            LastRenovationDate |-> "2010-06-27", Rating |-> "2.5",
            StreetAddress |-> "6611 Main St", City |-> "Bellevue",
            StateProvince |-> "WA", PostalCode |-> "98004", Country |-> "USA"]
      [] h = "h2"
      -> [HotelId |-> "h2", HotelName |-> "Trails End Motel",
            Description |-> "Only 8 miles from downtown", Category |-> "Luxury",
            Tags |-> "", ParkingIncluded |-> "false", IsDeleted |-> "false",
            LastRenovationDate |-> "2017-01-18", Rating |-> "3.2",
            StreetAddress |-> "7014 E Camelback Rd", City |-> "Scottsdale",
            StateProvince |-> "AZ", PostalCode |-> "85251", Country |-> "USA"]
      [] OTHER
      -> [HotelId |-> h, HotelName |-> "Hotel " \o h,
            Description |-> "Economy rooms", Category |-> "Budget",
            Tags |-> "free parking", ParkingIncluded |-> "true", IsDeleted |-> "false",
            LastRenovationDate |-> "2015-03-02", Rating |-> "3.0",
            StreetAddress |-> "1 Station Rd", City |-> "Tampa",
            StateProvince |-> "FL", PostalCode |-> "33601", Country |-> "USA"]

FormatHotelForSynthesizer(result) ==
    LET hotel == HotelDocument(result.hotel) IN
    << <<"--- HOTEL START ---">>,
       <<"HotelId", hotel.HotelId>>,
       <<"HotelName", hotel.HotelName>>,
       <<"Description", hotel.Description>>,
       <<"Category", hotel.Category>>,
       <<"Tags", hotel.Tags>>,
       <<"ParkingIncluded", hotel.ParkingIncluded>>,
       <<"IsDeleted", hotel.IsDeleted>>,
       <<"LastRenovationDate", hotel.LastRenovationDate>>,
       <<"Rating", hotel.Rating>>,
       <<"Address.StreetAddress", hotel.StreetAddress>>,
       <<"Address.City", hotel.City>>,
       <<"Address.StateProvince", hotel.StateProvince>>,
       <<"Address.PostalCode", hotel.PostalCode>>,
       <<"Address.Country", hotel.Country>>,
       <<"Score", result.score>>,
       <<"--- HOTEL END ---">> >>

\* strings.Join(blocks, "\n\n") / .join('\n\n'): one blank line between blocks
RECURSIVE JoinBlocks(_)
JoinBlocks(blocks) ==
    IF Len(blocks) = 0 THEN <<>>
    ELSE IF Len(blocks) = 1 THEN blocks[1]
    ELSE blocks[1] \o << <<"">> >> \o JoinBlocks(Tail(blocks))

\* a tool that formats the results last to first
FormatResultsReversed(found) ==
    JoinBlocks([i \in 1..Len(found) |->
                   FormatHotelForSynthesizer(found[Len(found) + 1 - i])])

FormatResults(found) ==
    JoinBlocks([i \in 1..Len(found) |-> FormatHotelForSynthesizer(found[i])])

TSToolErrorText == << <<"Error occurred while searching for hotels.">> >>

\* the stored records in the store's order of similarity to the query
StoreRanking ==
    << [hotel |-> "h1", score |-> 513081], [hotel |-> "h2", score |-> 494860],
       [hotel |-> "h3", score |-> 481200], [hotel |-> "h4", score |-> 470015],
       [hotel |-> "h5", score |-> 455310] >>

\* what the store can answer to a k-nearest-neighbour query: the best records
\* in order, no more than k of them
SearchResults(k) ==
    {SubSeq(StoreRanking, 1, n) :
        n \in {m \in 0..Len(StoreRanking) : m <= k}}

\* ------------------------------------------------- synthesizer: pure parts
\* the prompts line by line; the bullet sign and the quoted examples of the
\* source text are left out of the strings
SynthesizerSystemPrompt ==
    << <<"You are an expert hotel recommendation assistant using vector search results.">>,
       <<"Only use the TOP 3 results provided. Do not request additional searches or call other tools.">>,
       <<"">>,
       <<"GOAL: Provide a concise comparative recommendation to help the user choose between the top 3 options.">>,
       <<"">>,
       <<"REQUIREMENTS:">>,
       <<"- Compare only the top 3 results across the most important attributes: rating, score, location, price-level (if available), and key tags (parking, wifi, pool).">>,
       <<"- Identify the main tradeoffs in one short sentence per tradeoff.">>,
       <<"- Give a single clear recommendation with one short justification sentence.">>,
       <<"- Provide up to two alternative picks (one sentence each) explaining when they are preferable.">>,
       <<"">>,
       <<"FORMAT CONSTRAINTS:">>,
       <<"- Plain text only (no markdown).">>,
       <<"- Keep the entire response under 220 words.">>,
       <<"- Use simple bullets or numbered lists and short sentences (preferably <25 words per sentence).">>,
       <<"- Preserve hotel names exactly as provided in the tool summary.">>,
       <<"">>,
       <<"Do not add extra commentary, marketing language, or follow-up questions. If information is missing and necessary to choose, state it in one sentence and still provide the best recommendation based on available data.">> >>

\* a prompt that asks for an analysis of as many results as the default k
TopResultsAll == DefaultNearestNeighbors

\* "Analyze the TOP 3 results": the number of results the prompt asks about
TopResults == 3

\* the user message: the question, the whole tool summary, the instructions
CreateSynthesizerUserPrompt(userQuery, toolSummary) ==
    << <<"User asked: ", userQuery>>,
       <<"">>,
       <<"Tool summary:">> >>
    \o toolSummary
    \o << <<"">>,
          <<"Analyze the TOP", TopResults,
            "results by COMPARING them across all attributes (rating, score, tags, parking, location, category, rooms).">>,
          <<"">>,
          <<"Structure your response:">>,
          <<"1. COMPARISON SUMMARY: Compare the top 3 options highlighting key differences and tradeoffs">>,
          <<"2. BEST OVERALL: Recommend the single best option with clear reasoning">>,
          <<"3. ALTERNATIVE PICKS: Briefly explain when the other options might be preferred">>,
          <<"">>,
          <<"Your goal is to help the user DECIDE between the options, not just describe them.">>,
          <<"">>,
          <<"Format your response using plain text (NO markdown formatting like ** or ###). Use simple numbered lists, bullet points, and use the exact hotel names from the tool summary (preserve original capitalization).">> >>

\* a synthesizer request that carries the planner's tool definition
SynthToolsOfPlanner == <<ToolName>>

\* ChatCompletion / createAgent without tools: no tool definition attached
SynthTools == <<>>

NoRequest == [system |-> <<>>, user |-> <<>>, tools |-> <<>>]
SynthRequest(userQuery, hotelContext) ==
    [system |-> SynthesizerSystemPrompt,
     user |-> CreateSynthesizerUserPrompt(userQuery, hotelContext),
     tools |-> SynthTools]

\* ------------------------------------------------------------------ state
VARIABLES
    impl,          \* which sample runs: "go" or "ts"
    pc,            \* position of the pipeline driver
    requestedK,    \* nearestNeighbors the driver hands to the planner
    resp,          \* last response of the planner model
    round,         \* planner model calls answered so far
    pending,       \* ts: tool calls of the last response not yet finished
    messages,      \* ts: message list of the planner agent
    toolCall,      \* tool call whose execution supplied toolArgs
    toolArgs,      \* arguments of the last Search Tool execution
    toolResult,    \* what the last Search Tool execution returned
    results,       \* what VectorSearch returned to the last Search Tool execution
    plannerState,  \* "idle", "running", "returned", "failed"
    plannerResult, \* what the planner run returned
    synthState,    \* "idle", "running", "returned", "failed"
    synthRequest,  \* the chat completion request of the synthesizer
    synthResp,     \* what the synthesizer model answered
    finalAnswer,   \* what the synthesizer run returned
    outcome,       \* "running", "printed", "fatal", "caught"
    connection,    \* the driver's store connection: "open" or "closed"
    calls,         \* number of calls issued, per kind
    \* the upload program and a search against the collection it filled
    uploadPc,          \* position of the upload program
    debug,             \* DEBUG setting
    config,            \* the settings LoadConfigFromEnv read
    openaiClients,     \* what NewOpenAIClients returned
    store,             \* what NewVectorStore returned
    next,              \* index of the hotel the embedding loop is at
    hotelsWithVectors, \* documents prepared for the insert
    collection,        \* documents in the store's collection
    writeErrors,       \* write errors the store reported for the insert
    insertResult,      \* what InsertHotelsWithEmbeddings returned
    output,            \* lines the upload program has written
    index,             \* similarity of the vector index, "" before it exists
    algorithm,         \* VECTOR_INDEX_ALGORITHM as read for the index, "" if unset
    indexOptions,      \* the index options made from the settings
    searchK,           \* k of the search
    hits,              \* what VectorSearch returned
    \* the TypeScript scripts: the authentication test suite and the clean up
    script,            \* which script runs, "off" for none
    scriptPc,          \* position of the script
    processEnv,        \* the environment settings the scripts read
    testsPassed,       \* test-auth: checks that passed
    testsFailed,       \* test-auth: checks that failed
    testLog,           \* test-auth: what logTest was called with, in order
    client,            \* the script's MongoClient: "none", "created", "connected", "closed"
    thrown,            \* the error the database function is about to throw
    dropped,           \* the database dropped: "", "named" or "default"
    exitCode,          \* <<code>> once the script has exited, NoExit while it runs
    \* all programs
    commands           \* the commands sent to the database so far, in order

storeVars == <<uploadPc, debug, config, openaiClients, store, next, hotelsWithVectors, collection, writeErrors,
               insertResult, output, index, algorithm, indexOptions, searchK, hits>>

pipelineVars == <<impl, pc, requestedK, resp, round, pending, messages, toolCall, toolArgs,
                  toolResult, results, plannerState, plannerResult, synthState,
                  synthRequest, synthResp, finalAnswer, outcome, connection, calls>>

scriptVars == <<script, scriptPc, processEnv, testsPassed, testsFailed, testLog, client, thrown,
                dropped, exitCode>>

vars == <<pipelineVars, storeVars, commands, scriptVars>>

NoToolCall == [type |-> "", name |-> "", arguments |-> InvalidJSON]
NoToolArgs == [Query |-> "", NearestNeighbors |-> 0]
\* embedFailed counts the embedding calls that ended in a failure
NoCalls == [plannerModel |-> 0, synthModel |-> 0, embed |-> 0, embedFailed |-> 0,
            search |-> 0, toolExec |-> 0]
Count(kind) == [calls EXCEPT ![kind] = @ + 1]

\* the settings the scripts read, each empty or set
NoEnv == [AZURE_DOCUMENTDB_CLUSTER |-> "", MONGO_CLUSTER_NAME |-> "",
          AZURE_DOCUMENTDB_DATABASENAME |-> "", AZURE_DOCUMENTDB_CONNECTION_STRING |-> "",
          databaseName |-> ""]
\* no exit code yet
NoExit == <<>>
\* no script runs
NoScript ==
    /\ script = "off"
    /\ scriptPc = "off"
    /\ processEnv = NoEnv
    /\ testsPassed = 0
    /\ testsFailed = 0
    /\ testLog = <<>>
    /\ client = "none"
    /\ thrown = NoResult
    /\ dropped = ""
    /\ exitCode = NoExit

\* settings: each is empty or set; USE_PASSWORDLESS is "true"/"1" or not
Settings == {"", "set"}
Configs == [Endpoint : Settings, APIKey : Settings, ConnectionString : Settings,
            ClusterName : Settings, UsePasswordless : BOOLEAN]
NoConfig == [Endpoint |-> "", APIKey |-> "", ConnectionString |-> "",
             ClusterName |-> "", UsePasswordless |-> FALSE]

Init ==
    /\ impl \in Impls
    /\ pc = "start"
    /\ requestedK = DefaultNearestNeighbors
    /\ resp = NoResponse
    /\ round = 0
    /\ pending = <<>>
    /\ messages = <<>>
    /\ toolCall = NoToolCall
    /\ toolArgs = NoToolArgs
    /\ toolResult = NoResult
    /\ results = NoResult
    /\ plannerState = "idle"
    /\ plannerResult = NoResult
    /\ synthState = "idle"
    /\ synthRequest = NoRequest
    /\ synthResp = NoResult
    /\ finalAnswer = NoResult
    /\ outcome = "running"
    /\ connection = "open"
    /\ calls = NoCalls
    /\ commands = <<>>
    /\ NoScript
    /\ uploadPc = "off"
    /\ config = NoConfig
    /\ openaiClients = NoResult
    /\ store = NoResult
    /\ debug = FALSE
    /\ next = 1
    /\ hotelsWithVectors = <<>>
    /\ collection = {}
    /\ writeErrors = 0
    /\ insertResult = NoResult
    /\ output = <<>>
    /\ index = ""
    /\ algorithm = ""
    /\ indexOptions = NoResult
    /\ searchK = 0
    /\ hits = NoResult

\* ----------------------------------------------------------------- driver
\* main.go 60-66 / TypeScript driver 84-85: resolve the neighbour count
ReadSettings ==
    /\ pc = "start"
    /\ \E env \in EnvNearestNeighbors :
         /\ impl = "ts" => env \in {EnvUnset, EnvNum(3)}
         /\ requestedK' = IF impl = "go" THEN GoNearestNeighbors(env)
                                         ELSE TSNearestNeighbors(env)
    /\ pc' = "planner"
    /\ UNCHANGED <<impl, connection, results, synthRequest, synthResp, resp, round, pending, messages, toolCall, toolArgs, toolResult,
                   plannerState, plannerResult, synthState, finalAnswer, outcome, calls>>
    /\ UNCHANGED <<storeVars, commands, scriptVars>>

\* the driver calls the planner: Run / runPlannerAgent is entered
PlannerRun ==
    /\ pc = "planner"
    /\ plannerState' = "running"
    /\ messages' = IF impl = "ts" THEN <<HumanMessage>> ELSE messages
    /\ pc' = "planner_model"
    /\ UNCHANGED <<impl, connection, results, synthRequest, synthResp, requestedK, resp, round, pending, toolCall, toolArgs, toolResult,
                   plannerResult, synthState, finalAnswer, outcome, calls>>
    /\ UNCHANGED <<storeVars, commands, scriptVars>>

\* the planner run ends with an error
PlannerFails(e, cnt) ==
    /\ plannerState' = "failed"
    /\ plannerResult' = e
    /\ pc' = "planner_failed"
    /\ calls' = cnt
    /\ UNCHANGED <<pending, messages, toolCall, toolArgs>>

\* the planner run returns text to the driver
PlannerReturns(text, cnt) ==
    /\ plannerState' = "returned"
    /\ plannerResult' = Ok(text)
    /\ pc' = "synth"
    /\ calls' = cnt

\* ------------------------------------------------------------- Go planner
\* ChatCompletionWithTools answers; Run goes on until it calls Execute
GoPlannerModel ==
    /\ impl = "go"
    /\ pc = "planner_model"
    /\ round' = round + 1
    /\ \/ /\ \E apiError \in {"request failed", "nil response"} :
               PlannerFails(Wrap("planner failed: ", Fail(<<apiError>>)), Count("plannerModel"))
          /\ UNCHANGED <<resp, toolResult>>
       \/ \E r \in Responses :
            /\ resp' = r
            /\ LET args == PlannerToolArgs(r, requestedK) IN
               IF ~args.ok
                 THEN PlannerFails(args, Count("plannerModel"))
                 ELSE /\ toolCall' = r.choices[1].toolCalls[1]
                      /\ toolArgs' = args.val
                      /\ calls' = [calls EXCEPT !.plannerModel = @ + 1, !.toolExec = @ + 1]
                      /\ pc' = "tool_embed"
                      /\ UNCHANGED <<pending, messages, plannerState, plannerResult>>
            /\ UNCHANGED toolResult
    /\ UNCHANGED <<impl, connection, results, synthRequest, synthResp, requestedK, synthState, finalAnswer, outcome>>
    /\ UNCHANGED <<storeVars, commands, scriptVars>>

\* ------------------------------------------------------ TypeScript planner
\* the tool function has returned `text`: its tool message joins the list and
\* the agent goes on with the next tool call of the response, or with the model
TSToolDone(text, cnt) ==
    /\ toolResult' = Ok(text)
    /\ messages' = Append(messages, ToolMessage(text))
    /\ pending' = Tail(pending)
    /\ IF Tail(pending) # <<>>
         THEN /\ toolCall' = Head(Tail(pending))
              /\ toolArgs' = TSToolArgs(Head(Tail(pending)))
              /\ calls' = [cnt EXCEPT !.toolExec = @ + 1]
              /\ pc' = "tool_embed"
         ELSE /\ calls' = cnt
              /\ pc' = "planner_model"
              /\ UNCHANGED <<toolCall, toolArgs>>
    /\ UNCHANGED <<plannerState, plannerResult>>

\* agent.invoke: the planner model answers inside the agent created by
\* createAgent; a response without tool calls ends the agent, and
\* runPlannerAgent returns extractPlannerToolOutput of the messages
TSPlannerModel ==
    /\ impl = "ts"
    /\ pc = "planner_model"
    /\ round' = round + 1
    /\ \/ /\ PlannerFails(Fail(<<"agent.invoke rejected">>), Count("plannerModel"))
          /\ UNCHANGED resp
       \/ \E r \in (IF round = 0 THEN TSResponses ELSE TSFollowUpResponses) :
            /\ Len(r.choices[1].toolCalls) > 0 => round + 1 < MaxRounds
            /\ resp' = r
            /\ LET msgs == Append(messages, AIMessage(r.choices[1].content))
                   tcs == r.choices[1].toolCalls
               IN /\ messages' = msgs
                  /\ IF tcs = <<>>
                       THEN /\ PlannerReturns(extractPlannerToolOutput(msgs),
                                              Count("plannerModel"))
                            /\ UNCHANGED <<pending, toolCall, toolArgs>>
                       ELSE /\ pending' = tcs
                            /\ toolCall' = Head(tcs)
                            /\ toolArgs' = TSToolArgs(Head(tcs))
                            /\ calls' = [calls EXCEPT !.plannerModel = @ + 1,
                                                      !.toolExec = @ + 1]
                            /\ pc' = "tool_embed"
                            /\ UNCHANGED <<plannerState, plannerResult>>
    /\ UNCHANGED <<impl, connection, results, synthRequest, synthResp, requestedK, toolResult, synthState, finalAnswer, outcome>>
    /\ UNCHANGED <<storeVars, commands, scriptVars>>

\* ------------------------------------------------------------ Search Tool
\* a step of the tool has failed with error e
\* (Go: Execute returns the error; ts: the catch block returns a text)
ToolStepFails(e, cnt) ==
    /\ results' = NoResult
    /\ IF impl = "go"
         THEN /\ toolResult' = e
              /\ PlannerFails(Wrap("search tool execution failed: ", e), cnt)
         ELSE TSToolDone(TSToolErrorText, cnt)

\* what GenerateEmbedding returns when it does not return a vector: the
\* provider call failed, or the response carried no embedding
EmbeddingFailures ==
    { Fail(<<"failed to generate embedding: ", "request failed">>),
      Fail(<<"no embeddings returned">>) }
CountEmbedFailed == [calls EXCEPT !.embed = @ + 1, !.embedFailed = @ + 1]

\* a tool that goes on to the store query although the embedding failed
ToolEmbedSearchesAnyway ==
    /\ pc = "tool_embed"
    /\ \/ /\ pc' = "tool_search"
          /\ calls' = CountEmbedFailed
       \/ /\ pc' = "tool_search"
          /\ calls' = Count("embed")
    /\ UNCHANGED <<pending, messages, toolCall, toolArgs, toolResult, results,
                   plannerState, plannerResult>>
    /\ UNCHANGED <<impl, connection, requestedK, resp, round, synthState, synthRequest, synthResp, finalAnswer, outcome>>
    /\ UNCHANGED <<storeVars, commands, scriptVars>>

\* step 1: the embedding request for the query
ToolEmbed ==
    /\ pc = "tool_embed"
    /\ \/ \E e \in EmbeddingFailures :
            ToolStepFails(Wrap("failed to generate embedding: ", e), CountEmbedFailed)
       \/ /\ pc' = "tool_search"
          /\ calls' = Count("embed")
          /\ UNCHANGED <<pending, messages, toolCall, toolArgs, toolResult, results,
                         plannerState, plannerResult>>
    /\ UNCHANGED <<impl, connection, requestedK, resp, round, synthState, synthRequest, synthResp, finalAnswer, outcome>>
    /\ UNCHANGED <<storeVars, commands, scriptVars>>

\* steps 2-4: the store query, formatting and joining of the blocks
\* a gateway that makes sure of the vector index before every search
VectorSearchCommandsWithIndex == <<"createIndexes", "aggregate">>

\* the commands one VectorSearch sends: a single aggregate with the $search
\* and $project stages
VectorSearchCommands == <<"aggregate">>

ToolSearch ==
    /\ pc = "tool_search"
    /\ \/ ToolStepFails(Wrap("vector search failed: ",
                             Fail(<<"vector search failed: ", "aggregate failed">>)),
                        Count("search"))
       \/ \E found \in SearchResults(toolArgs.NearestNeighbors) :
            /\ results' = Ok(found)
            /\ IF impl = "go"
                 THEN /\ toolResult' = Ok(FormatResults(found))
                      /\ PlannerReturns(FormatResults(found), Count("search"))
                      /\ UNCHANGED <<pending, messages, toolCall, toolArgs>>
                 ELSE TSToolDone(FormatResults(found), Count("search"))
    /\ commands' = commands \o VectorSearchCommands
    /\ UNCHANGED <<impl, connection, requestedK, resp, round, synthState, synthRequest, synthResp, finalAnswer, outcome>>
    /\ UNCHANGED <<storeVars, scriptVars>>

\* ------------------------------------------------------------ synthesizer
\* a driver that does not wait for the planner's result
SynthMayStartNoAwait == pc \in {"synth", "tool_search"}

\* a driver that goes on to the synthesizer after a failed planner run
SynthMayStartAfterFailure == pc \in {"synth", "planner_failed"}

\* the driver may call the synthesizer once the planner's result is in hand
SynthMayStart == pc = "synth"

SynthRun ==
    /\ SynthMayStart
    /\ synthState' = "running"
    /\ pc' = "synth_model"
    /\ UNCHANGED <<impl, connection, results, synthRequest, synthResp, requestedK, resp, round, pending, messages, toolCall, toolArgs,
                   toolResult, plannerState, plannerResult, finalAnswer, outcome, calls>>
    /\ UNCHANGED <<storeVars, commands, scriptVars>>

\* ChatCompletion / agent.invoke without tools answers
SynthModel ==
    /\ pc = "synth_model"
    /\ calls' = Count("synthModel")
    /\ synthRequest' = SynthRequest(UserQuery, plannerResult.val)
    /\ \/ /\ synthResp' = Fail(<<"request failed">>)
          /\ finalAnswer' = Wrap("synthesizer failed: ",
                                 Fail(<<"synthesizer chat completion failed: ", "request failed">>))
          /\ synthState' = "failed"
          /\ pc' = "synth_failed"
       \/ /\ impl = "go"
          /\ synthResp' = Ok(<<>>)
          /\ finalAnswer' = Wrap("synthesizer failed: ", Fail(<<"no completion choices returned">>))
          /\ synthState' = "failed"
          /\ pc' = "synth_failed"
       \/ /\ \E content \in Contents :
               /\ synthResp' = Ok(<<content>>)
               /\ finalAnswer' = Ok(AIMessage(content).content)
          /\ synthState' = "returned"
          /\ pc' = "print"
    /\ UNCHANGED <<impl, connection, results, requestedK, resp, round, pending, messages, toolCall, toolArgs,
                   toolResult, plannerState, plannerResult, outcome>>
    /\ UNCHANGED <<storeVars, commands, scriptVars>>

\* ------------------------------------------------------- end of the driver
\* the answer is shown and the driver ends: main returns and its deferred
\* store.Close runs (Go), or process.exit(0) ends the process (TypeScript)
ShowAnswer ==
    /\ pc = "print"
    /\ outcome' = "printed"
    /\ pc' = "exited"
    /\ connection' = IF impl = "go" THEN "closed" ELSE connection
    /\ UNCHANGED <<impl, results, synthRequest, synthResp, requestedK, resp, round, pending, messages, toolCall, toolArgs,
                   toolResult, plannerState, plannerResult, synthState, finalAnswer, calls>>
    /\ UNCHANGED <<storeVars, commands, scriptVars>>

\* a driver that gives a failed planner another run
GoFatalRetries ==
    /\ impl = "go"
    /\ pc \in {"planner_failed", "synth_failed"}
    /\ IF pc = "planner_failed" /\ calls.plannerModel < MaxRounds
         THEN pc' = "planner" /\ UNCHANGED outcome
         ELSE outcome' = "fatal" /\ pc' = "exited"
    /\ UNCHANGED <<impl, connection, results, synthRequest, synthResp, requestedK, resp, round, pending, messages, toolCall, toolArgs,
                   toolResult, plannerState, plannerResult, synthState, finalAnswer, calls>>
    /\ UNCHANGED <<storeVars, commands, scriptVars>>

\* main.go: log.Fatalf on a failed stage
GoFatal ==
    /\ impl = "go"
    /\ pc \in {"planner_failed", "synth_failed"}
    /\ outcome' = "fatal"
    /\ pc' = "exited"
    /\ UNCHANGED <<impl, connection, results, synthRequest, synthResp, requestedK, resp, round, pending, messages, toolCall, toolArgs,
                   toolResult, plannerState, plannerResult, synthState, finalAnswer, calls>>
    /\ UNCHANGED <<storeVars, commands, scriptVars>>

\* TypeScript driver: the catch block around the pipeline
TSCatch ==
    /\ impl = "ts"
    /\ pc \in {"planner_failed", "synth_failed"}
    /\ outcome' = "caught"
    /\ pc' = "exited"
    /\ UNCHANGED <<impl, connection, results, synthRequest, synthResp, requestedK, resp, round, pending, messages, toolCall, toolArgs,
                   toolResult, plannerState, plannerResult, synthState, finalAnswer, calls>>
    /\ UNCHANGED <<storeVars, commands, scriptVars>>

Next ==
    \/ ReadSettings
    \/ PlannerRun
    \/ GoPlannerModel
    \/ TSPlannerModel
    \/ ToolEmbed
    \/ ToolSearch
    \/ SynthRun
    \/ SynthModel
    \/ ShowAnswer
    \/ GoFatal
    \/ TSCatch

Spec == Init /\ [][Next]_vars

\* the driver is sequential code and every call it waits for returns: a step
\* that can be taken is taken
LiveSpec == Spec /\ WF_vars(Next)

TypeOK ==
    /\ impl \in Impls
    /\ plannerState \in {"idle", "running", "returned", "failed"}
    /\ synthState \in {"idle", "running", "returned", "failed"}
    /\ outcome \in {"running", "printed", "fatal", "caught"}

\* ============================================ upload program and the store
\* the hotels of the data file, in file order, and the embedding of each
HotelsData == <<"C", "A", "D", "B">>
Embedding(h) ==
    CASE h = "A" -> <<2, 0>>
      [] h = "B" -> <<1, 1>>
      [] h = "C" -> <<0, 2>>
      [] OTHER -> <<4, 1>>
QueryVector == <<2, 0>>
SearchKs == {1, 2, 3, DocumentedMaxK}
\* VECTOR_SIMILARITY: unset or one of the three metrics
SimilarityEnv == {"", "COS", "L2", "IP"}

\* CreateVectorIndex / getSimilarityType: COS unless the setting names a metric
Similarity(env) == IF env = "" THEN "COS" ELSE env

\* SetOrdered(true): the store would stop at the first rejected document
InsertOrderedAll == TRUE

\* options.InsertMany().SetOrdered(false)
InsertOrdered == FALSE

\* the store's InsertMany: rejects is the set of positions whose write fails;
\* an unordered insert writes every other document, an ordered one stops at
\* the first failure
InsertMany(docs, rejects, ordered) ==
    LET firstReject == CHOOSE i \in rejects : \A j \in rejects : i <= j
        writtenAt == IF ordered /\ rejects # {}
                       THEN 1..(firstReject - 1)
                       ELSE (1..Len(docs)) \ rejects
    IN [written |-> {docs[i] : i \in writtenAt},
        WriteErrors |-> IF ordered /\ rejects # {} THEN 1 ELSE Cardinality(rejects)]

\* the score the store attaches to a document: inner product, distance
\* (kept squared) or cosine (kept squared and scaled; all products are >= 0)
Dot(u, v) == u[1] * v[1] + u[2] * v[2]
searchScore(similarity, v, q) ==
    CASE similarity = "IP" -> Dot(v, q)
      [] similarity = "L2" -> Dot(v, v) - 2 * Dot(v, q) + Dot(q, q)
      [] OTHER -> (Dot(v, q) * Dot(v, q) * 1000) \div (Dot(v, v) * Dot(q, q))

\* x is at least as good a match as y: nearer for L2, higher score otherwise
AsGood(similarity, x, y) ==
    IF similarity = "L2" THEN x <= y ELSE x >= y

\* $search cosmosSearch with $project: the k nearest documents of the
\* collection with their scores, best match first
RECURSIVE Ranked(_, _, _)
Ranked(docs, similarity, q) ==
    IF docs = {} THEN <<>>
    ELSE LET best == CHOOSE d \in docs : \A e \in docs :
                        AsGood(similarity, searchScore(similarity, d.vector, q),
                                           searchScore(similarity, e.vector, q))
         IN << [document |-> best, score |-> searchScore(similarity, best.vector, q)] >>
            \o Ranked(docs \ {best}, similarity, q)
cosmosSearch(docs, similarity, q, k) ==
    LET ranked == Ranked(docs, similarity, q)
    IN SubSeq(ranked, 1, IF k < Len(ranked) THEN k ELSE Len(ranked))

\* a gateway that orders what the cursor yields by descending score
VectorSearchByScoreDescending(cursor) ==
    LET n == Len(cursor)
        order == CHOOSE f \in [1..n -> 1..n] :
                    /\ \A i, j \in 1..n : i # j => f[i] # f[j]
                    /\ \A i, j \in 1..n : i < j => cursor[f[i]].score >= cursor[f[j]].score
    IN [i \in 1..n |-> [Hotel |-> cursor[order[i]].document, Score |-> cursor[order[i]].score]]

\* a gateway that loses the first item of the cursor
VectorSearchSkipsFirst(cursor) ==
    [i \in 1..(Len(cursor) - 1) |->
        [Hotel |-> cursor[i + 1].document, Score |-> cursor[i + 1].score]]

\* VectorSearch: every item of the cursor becomes a HotelSearchResult, appended
\* in the order the cursor yields them
VectorSearch(cursor) ==
    [i \in 1..Len(cursor) |-> [Hotel |-> cursor[i].document, Score |-> cursor[i].score]]

\* the state in which the upload program has read its settings: nothing is
\* loaded or connected yet, the collection is empty
StoreInit ==
    /\ impl \in Impls
    /\ pc = "start"
    /\ requestedK = DefaultNearestNeighbors
    /\ resp = NoResponse
    /\ round = 0
    /\ pending = <<>>
    /\ messages = <<>>
    /\ toolCall = NoToolCall
    /\ toolArgs = NoToolArgs
    /\ toolResult = NoResult
    /\ results = NoResult
    /\ plannerState = "idle"
    /\ plannerResult = NoResult
    /\ synthState = "idle"
    /\ synthRequest = NoRequest
    /\ synthResp = NoResult
    /\ finalAnswer = NoResult
    /\ outcome = "running"
    /\ connection = "open"
    /\ calls = NoCalls
    /\ commands = <<>>
    /\ NoScript
    /\ uploadPc = "load"
    /\ debug \in (IF impl = "go" THEN BOOLEAN ELSE {FALSE})
    /\ config \in (IF impl = "go" THEN Configs ELSE {NoConfig})
    /\ openaiClients = NoResult
    /\ store = NoResult
    /\ next = 1
    /\ hotelsWithVectors = <<>>
    /\ collection = {}
    /\ writeErrors = 0
    /\ insertResult = NoResult
    /\ output = <<>>
    /\ index = ""
    /\ algorithm = ""
    /\ indexOptions = NoResult
    /\ searchK = 0
    /\ hits = NoResult

\* clients that take the API key whenever one is set
NewOpenAIClientsKeyFirst(c) ==
    IF c.Endpoint = "" THEN Fail(<<"AZURE_OPENAI_ENDPOINT is required">>)
    ELSE IF c.APIKey # "" THEN Ok([auth |-> "apikey"]) ELSE Ok([auth |-> "passwordless"])

\* NewOpenAIClients up to the making of the client: the authentication chosen,
\* or the error for settings no client can be made from
NewOpenAIClients(c) ==
    IF c.Endpoint = "" THEN Fail(<<"AZURE_OPENAI_ENDPOINT is required">>)
    ELSE LET usePasswordless == c.UsePasswordless \/ c.APIKey = ""
         IN IF usePasswordless THEN Ok([auth |-> "passwordless"])
            ELSE IF c.APIKey = ""
              THEN Fail(<<"AZURE_OPENAI_API_KEY is required when USE_PASSWORDLESS is not enabled">>)
              ELSE Ok([auth |-> "apikey"])

\* NewVectorStore up to the connection attempt: the authentication chosen, or
\* the error for settings no client can be made from
NewVectorStore(c) ==
    LET usePasswordless == c.UsePasswordless \/ (c.ConnectionString = "" /\ c.ClusterName # "")
    IN IF usePasswordless
         THEN IF c.ClusterName = ""
                THEN Fail(<<"AZURE_DOCUMENTDB_CLUSTER is required for passwordless authentication">>)
                ELSE Ok([auth |-> "passwordless"])
         ELSE IF c.ConnectionString = ""
                THEN Fail(<<"AZURE_DOCUMENTDB_CONNECTION_STRING is required when USE_PASSWORDLESS is not enabled">>)
                ELSE Ok([auth |-> "connectionstring"])

\* upload main calls LoadHotelsFromJSON: the file is read and parsed, or not
UploadLoad ==
    /\ impl = "go"
    /\ uploadPc = "load"
    /\ \/ uploadPc' = "clients"
       \/ uploadPc' = "fatal"
    /\ UNCHANGED <<debug, config, openaiClients, store, next, hotelsWithVectors, collection,
                   writeErrors, insertResult, output, index, algorithm, indexOptions, searchK, hits>>
    /\ UNCHANGED <<pipelineVars, commands, scriptVars>>

\* upload main calls NewOpenAIClients; making the Azure credential can fail
UploadClients ==
    /\ uploadPc = "clients"
    /\ LET made == NewOpenAIClients(config)
       IN \/ openaiClients' = made
          \/ /\ made.ok
             /\ made.val.auth = "passwordless"
             /\ openaiClients' = Fail(<<"failed to create Azure credential: ", "no credential">>)
    /\ uploadPc' = IF openaiClients'.ok THEN "connect" ELSE "fatal"
    /\ UNCHANGED <<debug, config, store, next, hotelsWithVectors, collection,
                   writeErrors, insertResult, output, index, algorithm, indexOptions, searchK, hits>>
    /\ UNCHANGED <<pipelineVars, commands, scriptVars>>

\* upload main calls NewVectorStore: with a client made the connection is
\* verified by a ping; making the client or the ping can fail
UploadConnect ==
    /\ uploadPc = "connect"
    /\ LET chosen == NewVectorStore(config)
       IN IF ~chosen.ok
            THEN store' = chosen /\ UNCHANGED commands
            ELSE \/ /\ store' = Fail(IF chosen.val.auth = "passwordless"
                                        THEN <<"OIDC authentication failed: ", "no client">>
                                        ELSE <<"failed to connect to MongoDB: ", "no client">>)
                    /\ UNCHANGED commands
                 \/ /\ commands' = Append(commands, "ping")
                    /\ \/ store' = chosen
                       \/ store' = Fail(<<"failed to ping MongoDB: ", "no answer">>)
    /\ uploadPc' = IF store'.ok THEN "embed" ELSE "fatal"
    /\ UNCHANGED <<debug, config, openaiClients, next, hotelsWithVectors, collection,
                   writeErrors, insertResult, output, index, algorithm, indexOptions, searchK, hits>>
    /\ UNCHANGED <<pipelineVars, scriptVars>>

\* the fields of HotelForVectorStore, the document type of the insert
HotelForVectorStoreFields ==
    {"HotelId", "HotelName", "Description", "Category", "Tags", "ParkingIncluded",
     "IsDeleted", "LastRenovationDate", "Rating", "Address", "DescriptionVector"}

\* the field upload main assigns the embedding to; the documents of the model
\* carry it as vector
AssignedVectorField == "ContentVector"

\* upload main, one turn of the loop: the hotel gets its embedding and joins
\* hotelsWithVectors, or the embedding fails and the hotel is skipped
UploadEmbed ==
    /\ uploadPc = "embed"
    /\ next <= Len(HotelsData)
    /\ LET hotel == HotelsData[next]
           prepared == Append(hotelsWithVectors,
                              [HotelId |-> hotel, vector |-> Embedding(hotel)])
       IN \E embedded \in BOOLEAN :
            LET after == IF embedded THEN prepared ELSE hotelsWithVectors
            IN /\ hotelsWithVectors' = after
               /\ IF next = Len(HotelsData)
                    THEN /\ uploadPc' = "insert"
                         /\ output' = Append(output, <<"Generated embeddings for", Len(after)>>)
                    ELSE UNCHANGED <<uploadPc, output>>
    /\ next' = next + 1
    /\ UNCHANGED <<debug, config, openaiClients, store, collection, writeErrors, insertResult, index, algorithm, indexOptions, searchK, hits>>
    /\ UNCHANGED <<pipelineVars, commands, scriptVars>>

\* lines InsertHotelsWithEmbeddings writes for a bulk write exception
PartialInsertLines(inserted, failed) ==
    (IF debug THEN << <<"Partial insert", inserted, failed>> >> ELSE <<>>)
    \o (IF inserted = 0 THEN <<>> ELSE << <<"Warning: partial insert", failed>> >>)
InsertedLines(inserted) ==
    IF debug THEN << <<"Inserted", inserted>> >> ELSE <<>>

\* upload main calls InsertHotelsWithEmbeddings and reports or gives up
UploadInsert ==
    /\ uploadPc = "insert"
    /\ LET n == Len(hotelsWithVectors)
           reported == << <<"Successfully inserted", n>> >>
       IN IF n = 0
            THEN /\ insertResult' = Ok(<<>>)
                 /\ output' = output \o reported
                 /\ uploadPc' = "index"
                 /\ UNCHANGED <<collection, writeErrors>>
            ELSE \/ /\ insertResult' = Fail(<<"failed to insert documents: ", "command failed">>)
                    /\ uploadPc' = "fatal"
                    /\ UNCHANGED <<collection, writeErrors, output>>
                 \/ \E rejects \in SUBSET (1..n) :
                      LET done == InsertMany(hotelsWithVectors, rejects, InsertOrdered)
                          inserted == n - done.WriteErrors
                      IN /\ collection' = collection \cup done.written
                         /\ writeErrors' = done.WriteErrors
                         /\ IF done.WriteErrors = 0
                              THEN /\ insertResult' = Ok(<<>>)
                                   /\ output' = output \o InsertedLines(inserted) \o reported
                                   /\ uploadPc' = "index"
                              ELSE IF inserted = 0
                                THEN /\ insertResult' =
                                          Fail(<<"failed to insert any documents: ",
                                                 "bulk write exception">>)
                                     /\ output' = output \o PartialInsertLines(inserted, done.WriteErrors)
                                     /\ uploadPc' = "fatal"
                                ELSE /\ insertResult' = Ok(<<>>)
                                     /\ output' = output
                                                    \o PartialInsertLines(inserted, done.WriteErrors)
                                                    \o InsertedLines(inserted) \o reported
                                     /\ uploadPc' = "index"
    /\ commands' = IF Len(hotelsWithVectors) = 0 THEN commands ELSE Append(commands, "insert")
    /\ UNCHANGED <<debug, config, openaiClients, store, next, hotelsWithVectors, index, algorithm, indexOptions, searchK, hits>>
    /\ UNCHANGED <<pipelineVars, scriptVars>>

\* VECTOR_INDEX_ALGORITHM: unset, one of the three algorithms, or another name
AlgorithmEnv == {"", "vector-ivf", "vector-hnsw", "vector-diskann", "vector-flat"}

\* CreateVectorIndex, the switch on the algorithm: the cosmosSearchOptions of
\* the index with the default tuning, or the error for an unknown algorithm
cosmosSearchOptions(alg, similarity) ==
    LET kind == IF alg = "" THEN "vector-ivf" ELSE alg
    IN CASE kind = "vector-ivf" ->
              Ok([kind |-> kind, tuning |-> <<"numLists", 10>>, similarity |-> similarity])
         [] kind = "vector-hnsw" ->
              Ok([kind |-> kind, tuning |-> <<"m", 16, "efConstruction", 64>>,
                  similarity |-> similarity])
         [] kind = "vector-diskann" ->
              Ok([kind |-> kind, tuning |-> <<"maxDegree", 20, "lBuild", 10>>,
                  similarity |-> similarity])
         [] OTHER -> Fail(<<"unsupported vector index algorithm: ", kind>>)

\* getSimilarityType: COS unless the setting names a metric
getSimilarityType(env) == IF env \in {"COS", "L2", "IP"} THEN env ELSE "COS"

\* getVectorIndexOptions: the options of the named algorithm; the IVF options,
\* which carry no kind, for vector-ivf and for every other value
getVectorIndexOptions(alg, similarity) ==
    LET kind == IF alg = "" THEN "vector-ivf" ELSE alg
    IN CASE kind = "vector-hnsw" ->
              [kind |-> kind, tuning |-> <<"m", 16, "efConstruction", 64>>,
               similarity |-> similarity]
         [] kind = "vector-diskann" ->
              [kind |-> kind, tuning |-> <<>>, similarity |-> similarity]
         [] OTHER -> [kind |-> "", tuning |-> <<"numLists", 10>>, similarity |-> similarity]

\* the TypeScript upload calls getStore: the data file is read and parsed and
\* the documents go to fromDocuments with the index options; either step can
\* throw, which the upload script catches
TSGetStore ==
    /\ impl = "ts"
    /\ uploadPc = "load"
    /\ \/ /\ uploadPc' = "fatal"
          /\ UNCHANGED <<algorithm, indexOptions, collection, index, output>>
       \/ \E alg \in AlgorithmEnv, env \in SimilarityEnv :
            /\ algorithm' = alg
            /\ indexOptions' = Ok(getVectorIndexOptions(alg, getSimilarityType(env)))
            /\ \/ /\ uploadPc' = "fatal"
                  /\ UNCHANGED <<collection, index, output>>
               \/ /\ collection' = {[HotelId |-> HotelsData[i], vector |-> Embedding(HotelsData[i])] :
                                       i \in 1..Len(HotelsData)}
                  /\ index' = getSimilarityType(env)
                  /\ output' = Append(output, <<"Inserted", Len(HotelsData)>>)
                  /\ uploadPc' = "uploaded"
    /\ UNCHANGED <<debug, config, openaiClients, store, next, hotelsWithVectors, writeErrors,
                   insertResult, searchK, hits>>
    /\ UNCHANGED <<pipelineVars, commands, scriptVars>>

\* an upload that makes the index before the documents are in
UploadMayCreateIndexBeforeInsert == uploadPc \in {"insert", "index"}

\* upload main reaches CreateVectorIndex once InsertHotelsWithEmbeddings has
\* returned without an error
UploadMayCreateIndex == uploadPc = "index"

\* upload main calls CreateVectorIndex
UploadCreateIndex ==
    /\ UploadMayCreateIndex
    /\ \E alg \in AlgorithmEnv, env \in SimilarityEnv :
         LET options == cosmosSearchOptions(alg, Similarity(env))
         IN /\ algorithm' = alg
            /\ indexOptions' = options
            /\ IF ~options.ok
                 THEN /\ uploadPc' = "fatal"
                      /\ UNCHANGED <<index, commands>>
                 ELSE /\ commands' = Append(commands, "createIndexes")
                      /\ \/ /\ index' = Similarity(env)
                            /\ uploadPc' = "done"
                         \/ /\ uploadPc' = "fatal"
                            /\ UNCHANGED index
    /\ UNCHANGED <<debug, config, openaiClients, store, next, hotelsWithVectors, collection, writeErrors, insertResult,
                   output, searchK, hits>>
    /\ UNCHANGED <<pipelineVars, scriptVars>>

\* upload main: log.Fatalf
UploadFatal ==
    /\ uploadPc = "fatal"
    /\ uploadPc' = "exited"
    /\ UNCHANGED <<debug, config, openaiClients, store, next, hotelsWithVectors, collection, writeErrors, insertResult,
                   output, index, algorithm, indexOptions, searchK, hits>>
    /\ UNCHANGED <<pipelineVars, commands, scriptVars>>

\* a VectorSearch for QueryVector against the collection the upload left
StoreSearch ==
    /\ uploadPc = "done"
    /\ \E k \in SearchKs :
         /\ searchK' = k
         /\ \/ hits' = Ok(VectorSearch(cosmosSearch(collection, index, QueryVector, k)))
            \/ hits' = Fail(<<"vector search failed: ", "aggregate failed">>)
    /\ uploadPc' = "searched"
    /\ commands' = commands \o VectorSearchCommands
    /\ UNCHANGED <<debug, config, openaiClients, store, next, hotelsWithVectors, collection, writeErrors, insertResult,
                   output, index, algorithm, indexOptions>>
    /\ UNCHANGED <<pipelineVars, scriptVars>>

StoreNext ==
    \/ TSGetStore
    \/ UploadLoad
    \/ UploadClients
    \/ UploadConnect
    \/ UploadEmbed
    \/ UploadInsert
    \/ UploadCreateIndex
    \/ UploadFatal
    \/ StoreSearch

StoreSpec == StoreInit /\ [][StoreNext]_vars

\* ===================================================== TypeScript scripts
Scripts == {"test-auth", "clean-up", "clean-up-vector-store"}
\* the settings a script reads; databaseName is the argument of the clean up
Envs(sc) ==
    [AZURE_DOCUMENTDB_CLUSTER : IF sc = "test-auth" THEN {"", "set"} ELSE {""},
     MONGO_CLUSTER_NAME : IF sc = "clean-up" THEN {"", "set"} ELSE {""},
     AZURE_DOCUMENTDB_DATABASENAME : IF sc = "test-auth" THEN {""} ELSE {"", "set"},
     AZURE_DOCUMENTDB_CONNECTION_STRING : IF sc = "clean-up-vector-store" THEN {"", "set"} ELSE {""},
     databaseName : IF sc = "clean-up" THEN {"", "set"} ELSE {""}]

ScriptInit ==
    /\ impl = "ts"
    /\ pc = "start"
    /\ requestedK = DefaultNearestNeighbors
    /\ resp = NoResponse
    /\ round = 0
    /\ pending = <<>>
    /\ messages = <<>>
    /\ toolCall = NoToolCall
    /\ toolArgs = NoToolArgs
    /\ toolResult = NoResult
    /\ results = NoResult
    /\ plannerState = "idle"
    /\ plannerResult = NoResult
    /\ synthState = "idle"
    /\ synthRequest = NoRequest
    /\ synthResp = NoResult
    /\ finalAnswer = NoResult
    /\ outcome = "running"
    /\ connection = "open"
    /\ calls = NoCalls
    /\ commands = <<>>
    /\ uploadPc = "off"
    /\ debug = FALSE
    /\ config = NoConfig
    /\ openaiClients = NoResult
    /\ store = NoResult
    /\ next = 1
    /\ hotelsWithVectors = <<>>
    /\ collection = {}
    /\ writeErrors = 0
    /\ insertResult = NoResult
    /\ output = <<>>
    /\ index = ""
    /\ algorithm = ""
    /\ indexOptions = NoResult
    /\ searchK = 0
    /\ hits = NoResult
    /\ script \in Scripts
    /\ scriptPc = IF script = "test-auth" THEN "embeddings" ELSE "delete"
    /\ processEnv \in Envs(script)
    /\ testsPassed = 0
    /\ testsFailed = 0
    /\ testLog = <<>>
    /\ client = "none"
    /\ thrown = NoResult
    /\ dropped = ""
    /\ exitCode = NoExit

\* logTest: the call is written out and exactly one counter goes up
logTest(name, status, details) ==
    /\ testLog' = Append(testLog, <<name, status, details>>)
    /\ testsPassed' = IF status = "PASS" THEN testsPassed + 1 ELSE testsPassed
    /\ testsFailed' = IF status = "PASS" THEN testsFailed ELSE testsFailed + 1

\* a check whose test function resolves or rejects: PASS or FAIL with the
\* error's message
RunTest(name, passDetails, after) ==
    /\ \/ logTest(name, "PASS", passDetails)
       \/ logTest(name, "FAIL", <<"request failed">>)
    /\ scriptPc' = after
    /\ UNCHANGED <<script, processEnv, client, thrown, dropped, exitCode>>
    /\ UNCHANGED <<pipelineVars, storeVars, commands>>

runEmbeddingsTest ==
    /\ script = "test-auth"
    /\ scriptPc = "embeddings"
    /\ RunTest("Embeddings API", <<>>, "planner")

runPlannerTest ==
    /\ script = "test-auth"
    /\ scriptPc = "planner"
    /\ RunTest("Planner LLM", <<"Model: ", "AZURE_OPENAI_PLANNER_DEPLOYMENT">>, "synth")

runSynthTest ==
    /\ script = "test-auth"
    /\ scriptPc = "synth"
    /\ RunTest("Synthesizer LLM", <<"Model: ", "AZURE_OPENAI_SYNTH_DEPLOYMENT">>, "mongo")

\* runMongoTest enters testMongoConnection: without a cluster name it throws
\* at once and the check has failed, else the client is made
runMongoTest ==
    /\ script = "test-auth"
    /\ scriptPc = "mongo"
    /\ IF processEnv.AZURE_DOCUMENTDB_CLUSTER = ""
         THEN /\ logTest("MongoDB Connection", "FAIL",
                         <<"AZURE_DOCUMENTDB_CLUSTER is not set in environment">>)
              /\ scriptPc' = "summary"
              /\ UNCHANGED client
         ELSE /\ client' = "created"
              /\ scriptPc' = "connect"
              /\ UNCHANGED <<testsPassed, testsFailed, testLog>>
    /\ UNCHANGED <<script, processEnv, thrown, dropped, exitCode>>
    /\ UNCHANGED <<pipelineVars, storeVars, commands>>

\* deleteCosmosMongoDatabase before the client is made: the error it throws
\* for missing settings, in utils/mongo.ts and in vector-store.ts
deleteChecks(sc, e) ==
    IF sc = "clean-up"
      THEN IF e.MONGO_CLUSTER_NAME = ""
             THEN Fail(<<"Environment variable MONGO_CLUSTER_NAME is not set.">>)
             ELSE IF (IF e.databaseName # "" THEN e.databaseName
                                             ELSE e.AZURE_DOCUMENTDB_DATABASENAME) = ""
               THEN Fail(<<"Database name not provided and AZURE_DOCUMENTDB_DATABASENAME environment variable is not set.">>)
               ELSE Ok(<<>>)
      ELSE IF e.AZURE_DOCUMENTDB_CONNECTION_STRING = ""
             THEN Fail(<<"Environment variable AZURE_DOCUMENTDB_CONNECTION_STRING is not set.">>)
             ELSE Ok(<<>>)

\* deleteCosmosMongoDatabase is called: it throws for missing settings or
\* makes the client
deleteCosmosMongoDatabase ==
    /\ script \in {"clean-up", "clean-up-vector-store"}
    /\ scriptPc = "delete"
    /\ LET checked == deleteChecks(script, processEnv)
       IN IF checked.ok
            THEN /\ client' = "created"
                 /\ scriptPc' = "connect"
                 /\ UNCHANGED thrown
            ELSE /\ thrown' = checked
                 /\ scriptPc' = "rejected"
                 /\ UNCHANGED client
    /\ UNCHANGED <<script, processEnv, testsPassed, testsFailed, testLog, dropped, exitCode>>
    /\ UNCHANGED <<pipelineVars, storeVars, commands>>

\* await client.connect() inside the try block
clientConnect ==
    /\ scriptPc = "connect"
    /\ \/ /\ client' = "connected"
          /\ scriptPc' = "command"
          /\ UNCHANGED thrown
       \/ /\ thrown' = Fail(<<"connection failed">>)
          /\ scriptPc' = "finally"
          /\ UNCHANGED client
    /\ UNCHANGED <<script, processEnv, testsPassed, testsFailed, testLog, dropped, exitCode>>
    /\ UNCHANGED <<pipelineVars, storeVars, commands>>

\* the database named for the drop: the argument, else the setting
dbName(sc, e) ==
    IF sc = "clean-up" /\ e.databaseName # "" THEN e.databaseName
    ELSE e.AZURE_DOCUMENTDB_DATABASENAME

\* the command inside the try block: listDatabases (testMongoConnection) or
\* dropDatabase on client.db(name), the connection's default database when
\* no name is given
clientCommand ==
    /\ scriptPc = "command"
    /\ LET command == IF script = "test-auth" THEN "listDatabases" ELSE "dropDatabase"
       IN /\ commands' = Append(commands, command)
          /\ \/ /\ dropped' = IF script = "test-auth" THEN dropped
                                ELSE IF dbName(script, processEnv) = "" THEN "default" ELSE "named"
                /\ UNCHANGED thrown
             \/ /\ thrown' = Fail(<<command, " failed">>)
                /\ UNCHANGED dropped
    /\ scriptPc' = "finally"
    /\ UNCHANGED <<script, processEnv, testsPassed, testsFailed, testLog, client, exitCode>>
    /\ UNCHANGED <<pipelineVars, storeVars>>

\* the finally block, and where the result goes: runMongoTest logs PASS or
\* FAIL with the error's message; the clean up resolves or rejects
clientFinally ==
    /\ scriptPc = "finally"
    /\ client' = "closed"
    /\ IF script = "test-auth"
         THEN /\ IF thrown = NoResult
                   THEN logTest("MongoDB Connection", "PASS", <<>>)
                   ELSE logTest("MongoDB Connection", "FAIL", thrown.err)
              /\ scriptPc' = "summary"
         ELSE /\ scriptPc' = IF thrown = NoResult THEN "resolved" ELSE "rejected"
              /\ UNCHANGED <<testsPassed, testsFailed, testLog>>
    /\ UNCHANGED <<script, processEnv, thrown, dropped, exitCode>>
    /\ UNCHANGED <<pipelineVars, storeVars, commands>>

\* a summary that always reports success
summaryExitCodeZero(failed) == 0

\* runAllTests, the summary: exit code 0 when no check failed, else 1
summaryExitCode(failed) == IF failed = 0 THEN 0 ELSE 1

runAllTestsSummary ==
    /\ script = "test-auth"
    /\ scriptPc = "summary"
    /\ exitCode' = <<summaryExitCode(testsFailed)>>
    /\ scriptPc' = "exited"
    /\ UNCHANGED <<script, processEnv, testsPassed, testsFailed, testLog, client, thrown, dropped>>
    /\ UNCHANGED <<pipelineVars, storeVars, commands>>

ScriptNext ==
    \/ runEmbeddingsTest
    \/ runPlannerTest
    \/ runSynthTest
    \/ runMongoTest
    \/ deleteCosmosMongoDatabase
    \/ clientConnect
    \/ clientCommand
    \/ clientFinally
    \/ runAllTestsSummary

ScriptSpec == ScriptInit /\ [][ScriptNext]_vars

\* ================================================================= claims
Range(seq) == {seq[i] : i \in 1..Len(seq)}
Answered == Len(resp.choices) >= 1
FirstChoice == resp.choices[1]
PlannerEnded == plannerState \in {"returned", "failed"}

\* C1: the synthesizer's model call starts only after the planner run, with
\* its Search Tool execution, has completed: while the planner is idle,
\* running or failed the synthesizer is idle and has issued no call, and once
\* the synthesizer has started no planner-side call (planner model, embedding,
\* store query, tool execution) is issued any more.
C1_PlannerBeforeSynthesizer ==
    /\ [](/\ synthState # "idle" => plannerState = "returned" /\ plannerResult.ok
          /\ calls.synthModel > 0 => synthState # "idle"
          /\ pc \in {"planner_model", "tool_embed", "tool_search"} => synthState = "idle")
    /\ [][synthState # "idle" =>
             /\ calls'.plannerModel = calls.plannerModel
             /\ calls'.embed = calls.embed
             /\ calls'.search = calls.search
             /\ calls'.toolExec = calls.toolExec
             /\ plannerResult' = plannerResult]_vars

C1_Witness ==
    /\ synthState = "returned"
    /\ calls.synthModel = 1
    /\ calls.toolExec >= 1
    /\ calls.search >= 1
    /\ plannerState = "returned"

\* C2: if the planner model's response contains no tool call (and no tool has
\* run), the planner run does not return a ToolOutput and the synthesizer is
\* not invoked.
C2_NoToolCallIsHardFailure ==
    (Answered /\ FirstChoice.toolCalls = <<>> /\ calls.toolExec = 0) =>
        /\ plannerState # "returned"
        /\ ~plannerResult.ok
        /\ synthState = "idle"
        /\ calls.synthModel = 0

\* C3: in every planner run the planner model is called exactly once and the
\* Search Tool is executed at most once; a run that returns a ToolOutput has
\* executed the Search Tool exactly once.
C3_OneModelCallOneToolExecution ==
    /\ calls.plannerModel <= 1
    /\ calls.toolExec <= 1
    /\ PlannerEnded => calls.plannerModel = 1
    /\ plannerState = "returned" => calls.toolExec = 1

\* C4: when nearestNeighbors is absent or zero in the tool call that is
\* executed, the Search Tool receives the caller's requestedK, and the
\* neighbour count the Search Tool receives is never zero.
C4_MissingKBecomesRequestedK ==
    calls.toolExec >= 1 =>
        /\ ( \/ toolCall.arguments.nearestNeighbors.tag = "absent"
             \/ /\ toolCall.arguments.nearestNeighbors.tag = "number"
                /\ toolCall.arguments.nearestNeighbors.halves = 0 )
           => toolArgs.NearestNeighbors = requestedK
        /\ toolArgs.NearestNeighbors # 0

\* C5: whenever the Search Tool is executed, the neighbour count it is given
\* lies in 1..20.
C5_KWithinDocumentedRange ==
    calls.toolExec >= 1 =>
        /\ DocumentedMinK <= toolArgs.NearestNeighbors
        /\ toolArgs.NearestNeighbors <= DocumentedMaxK

\* C6: when a planner run succeeds, what it returns is exactly what the
\* Search Tool returned in that run.
C6_PlannerReturnsToolOutput ==
    plannerState = "returned" =>
        /\ calls.toolExec >= 1
        /\ toolResult.ok
        /\ plannerResult.val = toolResult.val

\* C7: a Search Tool execution never hands an error to its caller: when a
\* step fails the tool's result is a non-empty text, and no planner failure
\* is a propagated tool failure.
C7_ToolFailureIsAText ==
    /\ toolResult.err = <<>>
    /\ (plannerState = "failed" =>
           Head(plannerResult.err) # "search tool execution failed: ")

\* C8 as stated: if the planner model's response has zero tool calls and
\* non-empty text, the Go planner run fails, the failure includes that text,
\* and the Search Tool is not executed.
C8_FailureIncludesText ==
    (impl = "go" /\ Answered /\ FirstChoice.toolCalls = <<>> /\ FirstChoice.content # "") =>
        /\ plannerState = "failed"
        /\ FirstChoice.content \in Range(plannerResult.err)
        /\ calls.toolExec = 0

\* C8 amended: if the planner model's response has zero tool calls and
\* non-empty text, the Go planner run fails and the Search Tool is not
\* executed; the failure includes that text when the finish reason is
\* tool_calls or stop.
C8_FailureIncludesTextUnlessCutOff ==
    (impl = "go" /\ Answered /\ FirstChoice.toolCalls = <<>> /\ FirstChoice.content # "") =>
        /\ plannerState = "failed"
        /\ calls.toolExec = 0
        /\ calls.embed = 0
        /\ FirstChoice.finishReason \in {"tool_calls", "stop"} =>
              FirstChoice.content \in Range(plannerResult.err)

C8_Witness ==
    /\ impl = "go"
    /\ Answered
    /\ FirstChoice.toolCalls = <<>>
    /\ FirstChoice.content = ModelText
    /\ FirstChoice.finishReason = "stop"
    /\ plannerState = "failed"
    /\ ModelText \in Range(plannerResult.err)

\* C9: if the planner model's response finishes for a reason other than
\* tool_calls or stop, the Go planner run fails and the Search Tool is not
\* executed, also when the response carries a well-formed tool call.
C9_OtherFinishReasonFails ==
    (impl = "go" /\ Answered /\ FirstChoice.finishReason \notin {"tool_calls", "stop"}) =>
        /\ plannerState = "failed"
        /\ calls.toolExec = 0
        /\ calls.embed = 0
        /\ calls.search = 0

C9_Witness ==
    /\ impl = "go"
    /\ Answered
    /\ FirstChoice.finishReason = "length"
    /\ Len(FirstChoice.toolCalls) >= 1
    /\ FirstChoice.toolCalls[1] = [type |-> "function", name |-> ToolName, arguments |-> GoodArgs]
    /\ plannerState = "failed"
    /\ outcome = "fatal"

\* C10: if the tool named in the tool call the Go planner uses is not
\* search_hotels_collection, the planner run fails and the Search Tool is not
\* executed.
C10_UnexpectedToolFails ==
    (impl = "go" /\ Answered /\ Len(FirstChoice.toolCalls) >= 1
        /\ FirstChoice.toolCalls[1].name # ToolName) =>
        /\ plannerState = "failed"
        /\ calls.toolExec = 0
        /\ calls.embed = 0
        /\ calls.search = 0

C10_Witness ==
    /\ impl = "go"
    /\ Answered
    /\ FirstChoice.finishReason = "tool_calls"
    /\ Len(FirstChoice.toolCalls) >= 1
    /\ FirstChoice.toolCalls[1] = [type |-> "function", name |-> "other_tool", arguments |-> GoodArgs]
    /\ plannerState = "failed"
    /\ plannerResult.err = <<"unexpected tool called: ", "other_tool">>

\* C11: if the arguments of the tool call the Go planner uses cannot be
\* parsed (not valid JSON, or the query argument missing or not a string),
\* the planner run fails and the Search Tool is not executed.
C11_MalformedArgumentsFail ==
    (impl = "go" /\ Answered /\ Len(FirstChoice.toolCalls) >= 1
        /\ \/ ~FirstChoice.toolCalls[1].arguments.valid
           \/ FirstChoice.toolCalls[1].arguments.query.tag # "string") =>
        /\ plannerState = "failed"
        /\ calls.toolExec = 0
        /\ calls.embed = 0
        /\ calls.search = 0

C11_Witness ==
    /\ impl = "go"
    /\ Answered
    /\ FirstChoice.finishReason = "tool_calls"
    /\ Len(FirstChoice.toolCalls) >= 1
    /\ FirstChoice.toolCalls[1] =
          [type |-> "function", name |-> ToolName,
           arguments |-> ArgsObject(JAbsent, JNumber(6))]
    /\ plannerState = "failed"
    /\ plannerResult.err =
          <<"failed to parse tool arguments: ", "query argument missing or invalid">>
    /\ calls.toolExec = 0

\* C12: if the embedding call fails or returns zero vectors, the Search Tool
\* invocation fails at step 1 and no store query is issued for that
\* invocation: store queries are issued only by invocations whose embedding
\* call succeeded, an invocation that reaches the store query has an
\* embedding in hand, and in the Go sample the embedding failure is the
\* failure of the tool and of the planner run.
C12_EmbeddingFailureStopsSearch ==
    /\ calls.embedFailed <= calls.embed
    /\ calls.search <= calls.embed - calls.embedFailed
    /\ pc = "tool_search" => calls.search + 1 = calls.embed - calls.embedFailed
    /\ (impl = "go" /\ calls.embedFailed > 0) =>
          /\ calls.search = 0
          /\ ~toolResult.ok
          /\ Head(toolResult.err) = "failed to generate embedding: "
          /\ plannerState = "failed"
    /\ (impl = "ts" /\ calls.embedFailed > 0) =>
          \E i \in 1..Len(messages) : messages[i] = ToolMessage(TSToolErrorText)

C12_Witness ==
    /\ impl = "go"
    /\ calls.embed = 1
    /\ calls.embedFailed = 1
    /\ calls.search = 0
    /\ toolResult = Fail(<<"failed to generate embedding: ", "no embeddings returned">>)
    /\ plannerState = "failed"
    /\ outcome = "fatal"

\* positions of a line in a text, and the k-th smallest member of a set
LinesAt(text, line) == {i \in 1..Len(text) : text[i] = line}
Nth(S, k) == CHOOSE x \in S : Cardinality({y \in S : y < x}) = k - 1

\* text consists of exactly Len(found) blocks in the order of found, block i
\* running from the i-th start marker to the i-th end marker and carrying the
\* identifier and score of found[i], one blank line between consecutive blocks
BlocksWrapped(text, found, startMarker, endMarker) ==
    LET n == Len(found)
        starts == LinesAt(text, <<startMarker>>)
        ends == LinesAt(text, <<endMarker>>)
    IN /\ Cardinality(starts) = n
       /\ Cardinality(ends) = n
       /\ n = 0 => text = <<>>
       /\ n > 0 => Nth(starts, 1) = 1 /\ Nth(ends, n) = Len(text)
       /\ \A i \in 1..n :
             /\ Nth(starts, i) < Nth(ends, i)
             /\ \E j \in Nth(starts, i)..Nth(ends, i) : text[j] = <<"HotelId", found[i].hotel>>
             /\ \E j \in Nth(starts, i)..Nth(ends, i) : text[j] = <<"Score", found[i].score>>
             /\ i < n => /\ Nth(starts, i + 1) = Nth(ends, i) + 2
                         /\ text[Nth(ends, i) + 1] = <<"">>

\* C13 as stated: for every result sequence of length n returned by the
\* vector search, the Search Tool's output consists of exactly n blocks in the
\* order of the results, each wrapped in the markers --- RECORD START --- and
\* --- RECORD END ---, consecutive blocks separated by one blank line.
C13_BlocksInRecordMarkers ==
    results.ok =>
        /\ toolResult.ok
        /\ BlocksWrapped(toolResult.val, results.val,
                         "--- RECORD START ---", "--- RECORD END ---")

\* C13 amended: the same with the markers the formatter writes,
\* --- HOTEL START --- and --- HOTEL END ---.
C13_BlocksInHotelMarkers ==
    results.ok =>
        /\ toolResult.ok
        /\ BlocksWrapped(toolResult.val, results.val,
                         "--- HOTEL START ---", "--- HOTEL END ---")

C13_Witness ==
    /\ results.ok
    /\ Len(results.val) = 2
    /\ toolResult.ok
    /\ Cardinality(LinesAt(toolResult.val, <<"--- HOTEL START ---">>)) = 2
    /\ Cardinality(LinesAt(toolResult.val, <<"">>)) = 1
    /\ plannerState = "returned"
    /\ plannerResult.val = toolResult.val

\* the match quality of a stored document for the query under the index
Goodness(d) == searchScore(index, d.vector, QueryVector)
Doc(h) == [HotelId |-> h, vector |-> Embedding(h)]

C16_PartialInsertSucceeds ==
    insertResult # NoResult =>
        /\ insertResult.ok =>
              Cardinality(collection) = Len(hotelsWithVectors) - writeErrors
        /\ writeErrors > 0 => (insertResult.ok <=> Cardinality(collection) >= 1)
        /\ ~insertResult.ok => collection = {}

C16_Witness ==
    /\ insertResult.ok
    /\ Len(hotelsWithVectors) = 3
    /\ writeErrors = 2
    /\ collection = {hotelsWithVectors[3]}
    /\ uploadPc = "done"

\* C17: after an insert of N >= 1 documents that did not fail, every count of
\* inserted documents the upload reports satisfies inserted + failed = N and
\* inserted >= 1, failed being the number of write errors the store reported.
C17_ReportedCountsAddUp ==
    (insertResult.ok /\ Len(hotelsWithVectors) >= 1) =>
        \A i \in 1..Len(output) :
            output[i][1] \in {"Successfully inserted", "Inserted", "Partial insert"} =>
                /\ output[i][2] + writeErrors = Len(hotelsWithVectors)
                /\ output[i][2] >= 1

\* C18: a synthesizer run performs exactly one model call, with no tool
\* definition attached, and executes no tool; when the call yields a choice
\* the run returns the text of the first choice, and when the call fails or
\* yields no choice the run fails.
C18_SynthesizerOneCallNoTools ==
    /\ [](/\ calls.synthModel <= 1
          /\ synthState \in {"idle", "running"} => calls.synthModel = 0
          /\ synthState \in {"returned", "failed"} =>
                /\ calls.synthModel = 1
                /\ synthRequest.tools = <<>>
                /\ synthRequest.system = SynthesizerSystemPrompt
          /\ synthState = "returned" =>
                /\ synthResp.ok
                /\ Len(synthResp.val) >= 1
                /\ finalAnswer.ok
                /\ finalAnswer.val = IF synthResp.val[1] = "" THEN <<>>
                                                             ELSE << <<synthResp.val[1]>> >>
          /\ synthState = "failed" =>
                /\ ~finalAnswer.ok
                /\ ~synthResp.ok \/ synthResp.val = <<>>)
    /\ [][synthState # "idle" =>
             /\ calls'.toolExec = calls.toolExec
             /\ calls'.embed = calls.embed
             /\ calls'.search = calls.search]_vars

C18_Witness ==
    /\ synthState = "returned"
    /\ synthRequest.tools = <<>>
    /\ synthResp = Ok(<<ModelText>>)
    /\ finalAnswer = Ok(<< <<ModelText>> >>)
    /\ calls.synthModel = 1
    /\ outcome = "printed"

\* the records a prompt asks the model to analyse: the first n blocks of its
\* tool summary, n being the number its "Analyze the TOP n results" line names
InstructedScope(prompt) ==
    LET analyzeAt == CHOOSE i \in 1..Len(prompt) :
                        Len(prompt[i]) = 3 /\ prompt[i][1] = "Analyze the TOP"
        n == prompt[analyzeAt][2]
        starts == {i \in LinesAt(prompt, <<"--- HOTEL START ---">>) : i < analyzeAt}
        ends == {i \in LinesAt(prompt, <<"--- HOTEL END ---">>) : i < analyzeAt}
        blocks == IF n < Cardinality(starts) THEN n ELSE Cardinality(starts)
    IN {prompt[j] : j \in UNION {Nth(starts, b)..Nth(ends, b) : b \in 1..blocks}}

\* C19: when the tool output holds five records R1..R5 in descending order of
\* score, the records the synthesizer's prompt asks the model to analyse are
\* R1, R2 and R3: the content of R4 and R5 is outside the instructed scope.
C19_PromptScopeIsTopThree ==
    (synthRequest # NoRequest /\ results.ok /\ Len(results.val) = 5
        /\ plannerResult.val = toolResult.val) =>
        LET scope == InstructedScope(synthRequest.user)
            ids == {line[2] : line \in {l \in scope : l[1] = "HotelId"}}
        IN /\ \A i \in 1..4 : results.val[i].score > results.val[i + 1].score
           /\ ids = {results.val[i].hotel : i \in 1..3}
           /\ \A i \in 4..5 :
                 /\ <<"HotelName", HotelDocument(results.val[i].hotel).HotelName>> \notin scope
                 /\ <<"Score", results.val[i].score>> \notin scope

C19_Witness ==
    /\ synthRequest # NoRequest
    /\ results.ok
    /\ Len(results.val) = 5
    /\ plannerResult.val = toolResult.val
    /\ <<"HotelId", "h5">> \in Range(synthRequest.user)
    /\ <<"HotelId", "h3">> \in InstructedScope(synthRequest.user)
    /\ synthState = "returned"

\* C20: whenever the pipeline driver has ended (after the answer, after a
\* planner failure, after a synthesizer failure) the store connection it
\* opened has been closed.
C20_ConnectionClosedOnExit ==
    pc = "exited" => connection = "closed"

WriteCommands == {"insert", "update", "delete", "drop", "dropDatabase", "createIndexes"}
C22_PipelineOnlyReads ==
    /\ [](impl = "go" =>
            /\ \A i \in 1..Len(commands) : commands[i] \notin WriteCommands
            /\ Len(commands) = calls.search)
    /\ [][impl = "go" => collection' = collection /\ index' = index]_vars

C22_Witness ==
    /\ impl = "go"
    /\ pc = "exited"
    /\ outcome = "printed"
    /\ commands = <<"aggregate">>

\* C23: the upload program sends the index command only after the bulk
\* insert has returned without an error, never before an insert command,
\* and not at all when loading the data file, making the clients,
\* connecting or the insert has failed.
C23_IndexOnlyAfterInsert ==
    /\ [](\A i \in 1..Len(commands) :
            commands[i] = "createIndexes" =>
              /\ openaiClients.ok
              /\ store.ok
              /\ insertResult.ok
              /\ \A j \in 1..Len(commands) : commands[j] = "insert" => j < i)
    /\ [][(Len(commands') > Len(commands) /\ commands'[Len(commands')] = "createIndexes")
            => uploadPc = "index" /\ insertResult.ok]_vars

C23_Witness ==
    /\ uploadPc = "done"
    /\ commands = <<"ping", "insert", "createIndexes">>
    /\ insertResult.ok
    /\ writeErrors > 0

\* C24: the Go clients choose their authentication from the settings: Azure
\* OpenAI is passwordless exactly when USE_PASSWORDLESS is enabled or no API
\* key is set, else it uses the API key; the store is passwordless exactly
\* when USE_PASSWORDLESS is enabled or a cluster name is set without a
\* connection string, else it uses the connection string; no client is made
\* without an endpoint, for a passwordless store without a cluster name, or
\* for connection string authentication without a connection string.
OpenAIPasswordless(c) == c.UsePasswordless \/ c.APIKey = ""
StorePasswordless(c) == c.UsePasswordless \/ (c.ConnectionString = "" /\ c.ClusterName # "")
ClientsTried == openaiClients # NoResult
StoreTried == store # NoResult
SupportedAlgorithms == {"vector-ivf", "vector-hnsw", "vector-diskann"}
C25_UnsupportedAlgorithmFails ==
    (indexOptions # NoResult /\ algorithm \notin SupportedAlgorithms \cup {""}) =>
        /\ ~indexOptions.ok
        /\ uploadPc \in {"fatal", "exited"}
        /\ \A i \in 1..Len(commands) : commands[i] # "createIndexes"

\* C26: given that every external call returns, a run of the Go pipeline
\* ends: it has shown the final answer or ended with a reported failure; the
\* planner waits for the model's tool call once and never again.
C26_RunTerminates ==
    /\ [](impl = "go" => <>(pc = "exited" /\ outcome \in {"printed", "fatal"}))
    /\ [](impl = "go" /\ outcome = "printed" => finalAnswer.ok /\ plannerState = "returned")
    /\ [](impl = "go" => calls.plannerModel <= 1)
    /\ [][impl = "go" /\ pc' = "planner_model" => pc \in {"planner", "planner_model"}]_vars
    /\ [][impl = "go" /\ PlannerEnded => plannerState' = plannerState]_vars

C26_Witness ==
    /\ impl = "go"
    /\ pc = "exited"
    /\ outcome = "fatal"
    /\ plannerState = "returned"
    /\ synthState = "failed"
    /\ calls.plannerModel = 1

\* C27: the authentication test suite runs its four checks in order, a
\* failed check never keeps a later one from running, every check counts
\* once as passed or as failed, the counts add up to four at the summary,
\* and the exit code is 0 exactly when no check failed, else 1.
Checks == <<"Embeddings API", "Planner LLM", "Synthesizer LLM", "MongoDB Connection">>
Logged(status) == Cardinality({i \in 1..Len(testLog) : testLog[i][2] = status})
C27_FourChecksCounted ==
    /\ [](script = "test-auth" =>
            /\ Len(testLog) <= Len(Checks)
            /\ \A i \in 1..Len(testLog) : testLog[i][1] = Checks[i]
            /\ testsPassed = Logged("PASS")
            /\ testsFailed = Logged("FAIL")
            /\ testsPassed + testsFailed = Len(testLog)
            /\ scriptPc \in {"summary", "exited"} => testsPassed + testsFailed = Len(Checks)
            /\ scriptPc = "exited" => exitCode = (IF testsFailed = 0 THEN <<0>> ELSE <<1>>)
            /\ scriptPc # "exited" => exitCode = NoExit)
    /\ [][script = "test-auth" =>
            /\ testsPassed' + testsFailed' <= testsPassed + testsFailed + 1
            /\ testsPassed' >= testsPassed
            /\ testsFailed' >= testsFailed]_vars

C27_Witness ==
    /\ script = "test-auth"
    /\ scriptPc = "exited"
    /\ testLog[2][2] = "FAIL"
    /\ testLog[3][2] = "PASS"
    /\ testLog[4][2] = "PASS"
    /\ testsPassed + testsFailed = Len(Checks)
    /\ exitCode = <<1>>

\* C28: the clean up throws before any client is made when the cluster name
\* or the database name is missing; a client once made is closed on every
\* path, and a failed connect or drop still reaches the caller after the
\* close.
CleanUp == script \in {"clean-up", "clean-up-vector-store"}
DatabaseNameMissing == dbName(script, processEnv) = ""
ClusterNameMissing == script = "clean-up" /\ processEnv.MONGO_CLUSTER_NAME = ""
C28_CleanUpThrowsFirstAndCloses ==
    CleanUp =>
      /\ (scriptPc # "delete" /\ (ClusterNameMissing \/ DatabaseNameMissing)) =>
            /\ client = "none"
            /\ scriptPc = "rejected"
            /\ commands = <<>>
      /\ scriptPc \in {"resolved", "rejected"} =>
            /\ client \in {"none", "closed"}
            /\ (thrown # NoResult <=> scriptPc = "rejected")

\* C29: the Go planner uses only the first tool call of the first choice: a
\* first tool call that is not of type function fails the run, and whatever
\* further tool calls and choices the response carries changes nothing and
\* raises no error.
OnlyFirst(r) ==
    [choices |-> << [r.choices[1] EXCEPT !.toolCalls = <<r.choices[1].toolCalls[1]>>] >>]
C29_OnlyFirstToolCallCounts ==
    (impl = "go" /\ Answered /\ FirstChoice.finishReason \in {"tool_calls", "stop"}
        /\ Len(FirstChoice.toolCalls) >= 1) =>
        LET first == PlannerToolArgs(OnlyFirst(resp), requestedK)
        IN /\ PlannerToolArgs(resp, requestedK) = first
           /\ FirstChoice.toolCalls[1].type # "function" =>
                 /\ plannerState = "failed"
                 /\ plannerResult.err = <<"failed to extract tool call: ",
                                          "unexpected tool call type: ",
                                          FirstChoice.toolCalls[1].type>>
           /\ ~first.ok => plannerState = "failed" /\ plannerResult = first /\ calls.toolExec = 0
           /\ first.ok =>
                 /\ calls.toolExec = 1
                 /\ toolCall = FirstChoice.toolCalls[1]
                 /\ toolArgs = first.val

C29_Witness ==
    /\ impl = "go"
    /\ Answered
    /\ Len(FirstChoice.toolCalls) > 1
    /\ FirstChoice.toolCalls[1].name = ToolName
    /\ FirstChoice.toolCalls[2].name # ToolName
    /\ ~FirstChoice.toolCalls[2].arguments.valid
    /\ plannerState = "returned"
    /\ calls.toolExec = 1

\* C30: in the Go upload every document handed to the bulk insert carries,
\* in a field of the document type, the embedding made from that hotel's
\* own text; a hotel whose embedding failed is left out while the loop goes
\* on, so the batch has one vector per document.
C30_DocumentsCarryOwnEmbedding ==
    /\ \A i \in 1..Len(hotelsWithVectors) :
          /\ hotelsWithVectors[i].vector = Embedding(hotelsWithVectors[i].HotelId)
          /\ AssignedVectorField \in HotelForVectorStoreFields
    /\ Len(hotelsWithVectors) <= next - 1
    /\ \A i, j \in 1..Len(hotelsWithVectors) :
          i # j => hotelsWithVectors[i].HotelId # hotelsWithVectors[j].HotelId
====
